---------------------------- MODULE Spec2Model ----------------------------
(***************************************************************************)
(* A model of src/app.py: the webhook of the exam quiz bot.                *)
(*                                                                         *)
(* Strings that the program parses (message texts it classifies, postback  *)
(* payloads it splits, ObjectId hex strings) are sequences of one-letter   *)
(* strings.  Strings that are only passed through (question text, option   *)
(* text, explanation) are TLA+ strings.  A message text built by an        *)
(* f-string is the sequence of its segments.                               *)
(***************************************************************************)
EXTENDS Integers, Sequences, FiniteSets, TLC

VARIABLES
    users,              \* db.users: sender id -> seen_question_ids (a list of id strings)
    threads,            \* one record per worker of the hosting runtime
    history,            \* the requests.post calls made so far, in order, with the
                        \* locals of the handler that made each (kept by the
                        \* specifications whose properties span several requests)
    META_VERIFY_TOKEN,  \* the configured verify secret (None when unset)
    verify              \* the last verification GET and its response

vars == <<users, threads, history, META_VERIFY_TOKEN, verify>>

None == "None"

(***************************************************************************)
(* Python string operations used by the program.                          *)
(***************************************************************************)
LowerLetters == <<"a","b","c","d","e","f","g","h","i","j","k","l","m",
                  "n","o","p","q","r","s","t","u","v","w","x","y","z">>
UpperLetters == <<"A","B","C","D","E","F","G","H","I","J","K","L","M",
                  "N","O","P","Q","R","S","T","U","V","W","X","Y","Z">>

LowerIndex == [c \in {LowerLetters[k] : k \in 1..26} |->
                   CHOOSE k \in 1..26 : LowerLetters[k] = c]
UpperIndex == [c \in {UpperLetters[k] : k \in 1..26} |->
                   CHOOSE k \in 1..26 : UpperLetters[k] = c]

UpperChar(c) == IF c \in DOMAIN LowerIndex THEN UpperLetters[LowerIndex[c]] ELSE c

LowerChar(c) == IF c \in DOMAIN UpperIndex THEN LowerLetters[UpperIndex[c]] ELSE c

\* str.upper()
Upper(s) == [k \in 1..Len(s) |-> UpperChar(s[k])]

\* str.lower() (used by str(ObjectId): the hex digits come out in lower case)
Lower(s) == [k \in 1..Len(s) |-> LowerChar(s[k])]

\* str.startswith(p)
StartsWith(s, p) == Len(s) >= Len(p) /\ SubSeq(s, 1, Len(p)) = p

\* sub in s
Contains(s, sub) ==
    \E k \in 1..(Len(s) - Len(sub) + 1) : SubSeq(s, k, k + Len(sub) - 1) = sub

\* s.split(sep) for a one-letter separator: the pieces between the separators
Split(s, sep) ==
    LET cuts == {k \in 1..Len(s) : s[k] = sep}
        ends == cuts \cup {Len(s) + 1}
        \* the end of piece m: the m-th smallest of ends
        End(m) == CHOOSE k \in ends : Cardinality({x \in ends : x < k}) = m - 1
    IN  [m \in 1..Cardinality(ends) |->
             SubSeq(s, (IF m = 1 THEN 1 ELSE End(m - 1) + 1), End(m) - 1)]

(***************************************************************************)
(* bson.objectid.ObjectId: built from a string of 24 hex digits of either  *)
(* case (anything else raises InvalidId); str() gives the 24 digits in     *)
(* lower case.  An ObjectId value is represented by that lower-case form.  *)
(***************************************************************************)
HexDigits == {"0","1","2","3","4","5","6","7","8","9",
              "a","b","c","d","e","f","A","B","C","D","E","F"}

ObjectIdValid(id_str) ==
    Len(id_str) = 24 /\ \A k \in 1..24 : id_str[k] \in HexDigits

ObjectId(id_str) == Lower(id_str)

StrOfObjectId(oid) == oid


(***************************************************************************)
(* Python dict access: a dict is a function whose DOMAIN is its key set.   *)
(***************************************************************************)
Has(d, key) == key \in DOMAIN d

\* (the test `key in d` in place of the truth value of d.get(key))
TruthyIfPresent(d, key) == Has(d, key)

\* the truth value of d.get(key) for a value that is a dict or a string
Truthy(d, key) == Has(d, key) /\ DOMAIN d[key] # {}

(***************************************************************************)
(* db.questions: the question bank, created out of band and never written  *)
(* by the program.  The stored correct option is a letter of either case;  *)
(* the explanation is optional; the exam name is an open string tag.       *)
(***************************************************************************)
Oid(c1, c2) == [k \in 1..24 |-> IF k = 23 THEN c1 ELSE IF k = 24 THEN c2 ELSE "0"]

NEET == <<"N","E","E","T">>
JEE == <<"J","E","E">>
NEXT == <<"N","E","X","T">>
NEET_PG == <<"N","E","E","T","_","P","G">>

Q1 == Oid("a", "1")
Q2 == Oid("a", "2")
Q3 == Oid("b", "1")
Q4 == Oid("c", "1")
QUnknown == Oid("f", "f")

Options == [a |-> "opt a", b |-> "opt b", c |-> "opt c", d |-> "opt d"]

questions ==
    { [_id |-> Q1, exam_name |-> NEET, question_text |-> "text 1", options |-> Options,
       correct_option |-> <<"a">>, explanation |-> "because 1"],
      [_id |-> Q2, exam_name |-> NEET, question_text |-> "text 2", options |-> Options,
       correct_option |-> <<"B">>],
      [_id |-> Q3, exam_name |-> JEE, question_text |-> "text 3", options |-> Options,
       correct_option |-> <<"c">>, explanation |-> "because 3"],
      [_id |-> Q4, exam_name |-> NEET_PG, question_text |-> "text 4", options |-> Options,
       correct_option |-> <<"d">>, explanation |-> "because 4"] }

(***************************************************************************)
(* Inbound traffic.  An event and a POST body are JSON values: dicts whose *)
(* keys may be missing.                                                    *)
(***************************************************************************)
Users == {"u1", "u2"}

ANSWER_ == <<"A","N","S","W","E","R","_">>
NEXT_ == <<"N","E","X","T","_">>

AnswerPayload(id_str, letter) == ANSWER_ \o id_str \o <<"_">> \o letter
NextPayload(exam) == NEXT_ \o exam

TextEvent(u, txt) == [sender |-> [id |-> u], message |-> [text |-> txt]]
PostbackEvent(u, p) == [sender |-> [id |-> u], postback |-> [payload |-> p]]

Body(entries) == [parse |-> "dict", data |-> [object |-> "instagram", entry |-> entries]]
Body1(ev) == Body(<< [messaging |-> <<ev>>] >>)
Body2(ev1, ev2) == Body(<< [messaging |-> <<ev1, ev2>>] >>)

\* texts a user types
Texts == { <<"n","e","e","t">>, <<"J","e","e">>, <<"n","e","x","t">>, <<"h","i">>,
           <<"j","e","e"," ","n","e","e","t">> }

\* well-formed answer clicks: every bank question, each letter in both cases
Letters == { <<"a">>, <<"b">>, <<"c">>, <<"d">> }
AnswerPayloads ==
    { AnswerPayload(q._id, l) : q \in questions, l \in Letters }
    \cup { AnswerPayload(q._id, Upper(l)) : q \in questions, l \in Letters }

\* payloads a client may forge or mangle
OddPayloads ==
    { AnswerPayload(QUnknown, <<"a">>),                    \* well-formed id, not in the bank
      AnswerPayload(<<"z","z">>, <<"a">>),                 \* malformed id
      ANSWER_ \o Q1,                                       \* two parts only
      AnswerPayload(Upper(Q1), <<"c">>) \o <<"_">> \o JEE, \* upper-case hex, extra part
      NextPayload(NEET), NextPayload(JEE), NextPayload(NEET_PG), NEXT_,
      <<"H","E","L","L","O">> }

\* events that ask for the next question
ServeEvents(U) ==
    { TextEvent(u, <<"n","e","e","t">>) : u \in U }
    \cup { TextEvent(u, <<"J","e","e">>) : u \in U }
    \cup { PostbackEvent(u, NextPayload(NEET)) : u \in U }
    \cup { PostbackEvent(u, NextPayload(JEE)) : u \in U }

\* every event shape of the general specification, all from one sender
Events ==
    { TextEvent("u1", txt) : txt \in Texts }
    \cup { PostbackEvent("u1", p) : p \in AnswerPayloads \cup OddPayloads }
    \cup { [sender |-> [id |-> "u1"], message |-> [text |-> <<>>]],       \* empty text
           [sender |-> [id |-> "u1"], message |-> [mid |-> "m1"]],        \* no text
           [sender |-> [id |-> "u1"]],                                    \* neither
           [sender |-> [id |-> "u1"], postback |-> <<>>],                 \* empty postback
           [sender |-> [id |-> "u1"], postback |-> [title |-> "A"]],      \* no payload
           [message |-> [text |-> <<"n","e","e","t">>]],                  \* no sender
           [sender |-> [name |-> "x"], message |-> [text |-> <<"h","i">>]] } \* no sender id

Hi == TextEvent("u1", <<"h","i">>)

Bodies ==
    { [parse |-> "fail"], [parse |-> "null"],
      [parse |-> "dict", data |-> [entry |-> << [messaging |-> <<Hi>>] >>]],
      [parse |-> "dict", data |-> [object |-> "page", entry |-> << [messaging |-> <<Hi>>] >>]],
      [parse |-> "dict", data |-> [object |-> "instagram"]],
      Body(<< [id |-> "e1"], [messaging |-> <<Hi>>] >>) }
    \cup { Body1(ev) : ev \in Events }
    \cup { Body2(ev, Hi) : ev \in Events }
    \cup { Body2(PostbackEvent("u1", AnswerPayload(q._id, l)),
                 PostbackEvent("u1", AnswerPayload(q._id, Upper(l)))) :
              q \in questions, l \in Letters }

(***************************************************************************)
(* Worker state.  A worker is idle or inside webhook(); its fields are the *)
(* locals of the frames on its stack.  sent and nwrites record what the    *)
(* handler of the current event has posted and written, log what the       *)
(* events before it did; status and exc keep the outcome of the worker's   *)
(* last request until it takes the next one.                               *)
(***************************************************************************)
Workers == {"w1", "w2"}

NoLocals ==
    [sender_id |-> "", exam_name |-> <<>>, seen_ids |-> <<>>, question_doc |-> <<>>,
     question_id |-> <<>>, user_answer |-> <<>>, message |-> <<>>, marked_at |-> 0]

IdleThread ==
    [pc |-> "idle", body |-> [parse |-> "none"], i |-> 0, j |-> 0, loc |-> NoLocals,
     sent |-> <<>>, nwrites |-> 0, log |-> <<>>, status |-> 0, exc |-> "none"]

\* d.get(key, []) for the two lists webhook() iterates
GetList(d, key) == IF Has(d, key) THEN d[key] ELSE <<>>

Entries(th) == GetList(th.body.data, "entry")
Messaging(th) == GetList(Entries(th)[th.i], "messaging")
CurrentEvent(th) == Messaging(th)[th.j]

\* what the log keeps of one handled event
EventResult(th, exc) ==
    [event |-> CurrentEvent(th), sent |-> th.sent, writes |-> th.nwrites, exc |-> exc]

\* webhook() returns "OK", 200
ReturnOK(th) ==
    [th EXCEPT !.pc = "idle", !.loc = NoLocals, !.status = 200]

\* an exception leaves webhook(): Flask answers 500 and the rest of the POST is dropped
Raise(th, exc) ==
    [th EXCEPT !.pc = "idle", !.loc = NoLocals, !.status = 500, !.exc = exc,
               !.sent = <<>>, !.nwrites = 0, !.log = Append(@, EventResult(th, exc))]

\* the handler of the current event returns: the inner for loop moves on
EndEvent(th) ==
    [th EXCEPT !.pc = "loop", !.loc = NoLocals, !.j = @ + 1, !.sent = <<>>, !.nwrites = 0,
               !.log = Append(@, EventResult(th, "none"))]

\* handler code reaches a send_message call with this message_payload
CallSend(th, loc, message_payload) ==
    [th EXCEPT !.pc = "send", !.loc = [loc EXCEPT !.message = <<message_payload>>]]

(***************************************************************************)
(* webhook(), POST: get_json and the platform check (lines 95-97).         *)
(* request.get_json() on a body that is not JSON answers 400 or 415, or    *)
(* returns None (and data.get raises AttributeError, a 500), depending on  *)
(* the Flask release; a JSON null gives None as well.                      *)
(***************************************************************************)
GetJsonFailure == {400, 415, 500}

Receive(t, body, room) ==
    /\ threads[t].pc = "idle"
    /\ room
    /\ LET th == [IdleThread EXCEPT !.body = body]
       IN  CASE body.parse = "fail" ->
                  \E st \in GetJsonFailure :
                      threads' = [threads EXCEPT ![t] =
                          [th EXCEPT !.status = st, !.exc = "get_json"]]
             [] body.parse = "null" ->
                  threads' = [threads EXCEPT ![t] =
                      [th EXCEPT !.status = 500, !.exc = "AttributeError"]]
             [] OTHER ->
                  IF Has(body.data, "object") /\ body.data.object = "instagram"
                  THEN threads' = [threads EXCEPT ![t] =
                           [th EXCEPT !.pc = "loop", !.i = 1, !.j = 1]]
                  ELSE threads' = [threads EXCEPT ![t] = ReturnOK(th)]
    /\ UNCHANGED <<users, history, META_VERIFY_TOKEN, verify>>

(***************************************************************************)
(* webhook(), lines 98-122: the two for loops and the dispatch of one      *)
(* event; handle_postback's parsing of the payload (lines 155-158, 180-181)*)
(***************************************************************************)
\* (the JEE test placed before the NEET test)
ExamOfTextJeeFirst(text) ==
    LET message_text == Upper(text)
    IN  IF Contains(message_text, JEE) THEN JEE
        ELSE IF Contains(message_text, NEET) \/ Contains(message_text, NEXT) THEN NEET
        ELSE <<>>

\* lines 104-111: the exam the text names, "" standing for None
ExamOfText(text) ==
    LET message_text == Upper(text)
    IN  IF Contains(message_text, NEET) \/ Contains(message_text, NEXT) THEN NEET
        ELSE IF Contains(message_text, JEE) THEN JEE
        ELSE <<>>

HelpMessage == [text |-> <<"Hello! Type 'NEET' or 'JEE' to start a quiz.">>]

Dispatch(th) ==
    LET event == CurrentEvent(th)
    IN  IF ~(Has(event, "sender") /\ Has(event.sender, "id")) THEN Raise(th, "KeyError")
        ELSE
        LET loc == [NoLocals EXCEPT !.sender_id = event.sender.id]
        IN  IF Truthy(event, "message") /\ Truthy(event.message, "text")
            THEN LET exam_name == ExamOfText(event.message.text)
                 IN  IF exam_name # <<>>
                     THEN [th EXCEPT !.pc = "find_user",
                                     !.loc = [loc EXCEPT !.exam_name = exam_name]]
                     ELSE CallSend(th, loc, HelpMessage)
            ELSE IF Truthy(event, "postback")
            THEN IF ~Has(event.postback, "payload") THEN Raise(th, "KeyError")
                 ELSE
                 LET payload == event.postback.payload
                     parts == Split(payload, "_")
                 IN  IF StartsWith(payload, ANSWER_)
                     THEN IF Len(parts) < 3 THEN Raise(th, "IndexError")
                          ELSE [th EXCEPT !.pc = "get_question",
                                          !.loc = [loc EXCEPT !.question_id = parts[2],
                                                              !.user_answer = parts[3]]]
                     ELSE IF StartsWith(payload, NEXT_)
                     THEN [th EXCEPT !.pc = "find_user",
                                     !.loc = [loc EXCEPT !.exam_name = parts[2]]]
                     ELSE EndEvent([th EXCEPT !.loc = loc])
            ELSE EndEvent([th EXCEPT !.loc = loc])

NextEvent(t) ==
    LET th == threads[t]
    IN  /\ th.pc = "loop"
        /\ threads' = [threads EXCEPT ![t] =
               IF th.i > Len(Entries(th)) THEN ReturnOK(th)
               ELSE IF th.j > Len(Messaging(th)) THEN [th EXCEPT !.i = @ + 1, !.j = 1]
               ELSE Dispatch(th)]
        /\ UNCHANGED <<users, history, META_VERIFY_TOKEN, verify>>

(***************************************************************************)
(* fetch_unseen_question (lines 45-65), in its two store operations.  A    *)
(* store operation either answers or raises (store unreachable); nothing   *)
(* in the program catches the exception.                                   *)
(***************************************************************************)
\* (the ids read under a key the document never has)
SeenIdsEmpty(user_id) == <<>>

\* line 51
SeenIds(user_id) ==
    IF user_id \in DOMAIN users /\ Has(users[user_id], "seen_question_ids")
    THEN users[user_id].seen_question_ids
    ELSE <<>>

\* line 54
SeenObjectIds(seen_ids) == { ObjectId(seen_ids[k]) : k \in 1..Len(seen_ids) }

\* ($match without the $nin condition)
MatchIgnoringSeen(exam_name, seen_object_ids) ==
    { q \in questions : q.exam_name = exam_name }

\* ($match without the exam_name condition)
MatchAnyExam(exam_name, seen_object_ids) ==
    { q \in questions : q._id \notin seen_object_ids }

\* line 59, the $match stage
Match(exam_name, seen_object_ids) ==
    { q \in questions : q.exam_name = exam_name /\ q._id \notin seen_object_ids }

\* db.users.find_one and the conversion of the ids read (lines 50-54)
FindUser(t) ==
    LET th == threads[t]
    IN  /\ th.pc = "find_user"
        /\ \E up \in BOOLEAN :
             threads' = [threads EXCEPT ![t] =
                 IF ~up THEN Raise(th, "PyMongoError")
                 ELSE LET seen_ids == SeenIds(th.loc.sender_id)
                      IN  IF \E k \in 1..Len(seen_ids) : ~ObjectIdValid(seen_ids[k])
                          THEN Raise(th, "InvalidId")
                          ELSE [th EXCEPT !.pc = "aggregate", !.loc.seen_ids = seen_ids]]
        /\ UNCHANGED <<users, history, META_VERIFY_TOKEN, verify>>

\* line 150
CompletionMessage(exam_name) ==
    [text |-> <<"Congratulations! You've completed all available questions for ">>
              \o exam_name \o <<".">>]

\* db.questions.aggregate: $match, then $sample of one (lines 57-65), and the
\* branch of handle_new_question_request on its result (lines 131, 148-150)
Aggregate(t) ==
    LET th == threads[t]
        result == Match(th.loc.exam_name, SeenObjectIds(th.loc.seen_ids))
    IN  /\ th.pc = "aggregate"
        /\ \E up \in BOOLEAN :
             IF ~up THEN threads' = [threads EXCEPT ![t] = Raise(th, "PyMongoError")]
             ELSE IF result = {}
             THEN threads' = [threads EXCEPT ![t] =
                      CallSend(th, th.loc, CompletionMessage(th.loc.exam_name))]
             ELSE \E question_doc \in result :
                      threads' = [threads EXCEPT ![t] =
                          [th EXCEPT !.pc = "mark_seen", !.loc.question_doc = <<question_doc>>]]
        /\ UNCHANGED <<users, history, META_VERIFY_TOKEN, verify>>

(***************************************************************************)
(* mark_question_as_seen (lines 67-76) and the question message of         *)
(* handle_new_question_request (lines 132-147).                            *)
(***************************************************************************)
\* (update_one with an empty filter: the push goes to whichever document the
\* collection holds first; the upsert creates the sender's when it holds none)
PushUnfiltered(user_id, id_str) ==
    IF DOMAIN users = {}
    THEN [u \in {user_id} |-> [seen_question_ids |-> <<id_str>>]]
    ELSE LET first == CHOOSE u \in DOMAIN users : TRUE
         IN  [users EXCEPT ![first].seen_question_ids = Append(@, id_str)]

\* (a read-modify-write: the list read by fetch_unseen_question, with the new
\* id appended, is written back with $set)
PushOntoListRead(user_id, id_str) ==
    LET t == CHOOSE w \in DOMAIN threads :
                 /\ threads[w].pc = "mark_seen"
                 /\ threads[w].loc.sender_id = user_id
                 /\ threads[w].loc.question_doc[1]._id = id_str
    IN  [u \in DOMAIN users \cup {user_id} |->
            IF u = user_id
            THEN [seen_question_ids |-> Append(threads[t].loc.seen_ids, id_str)]
            ELSE users[u]]

\* ($set in place of $push: the list becomes the one new id)
PushReplacing(user_id, id_str) ==
    [u \in DOMAIN users \cup {user_id} |->
        IF u = user_id THEN [seen_question_ids |-> <<id_str>>] ELSE users[u]]

\* (an update that matches the user but pushes nothing)
PushDropped(user_id, id_str) == users

\* $push with upsert: one atomic append, creating the document if absent
Push(user_id, id_str) ==
    IF user_id \in DOMAIN users
    THEN [users EXCEPT ![user_id].seen_question_ids = Append(@, id_str)]
    ELSE [u \in DOMAIN users \cup {user_id} |->
             IF u = user_id THEN [seen_question_ids |-> <<id_str>>] ELSE users[u]]

Button(title, payload) == [type |-> "postback", title |-> title, payload |-> payload]

\* lines 139-147
QuestionMessage(question_doc) ==
    LET q_id == StrOfObjectId(question_doc._id)
        opts == question_doc.options
    IN  [text |-> <<question_doc.question_text, "\n\nA) ", opts.a, "\nB) ", opts.b,
                    "\nC) ", opts.c, "\nD) ", opts.d>>,
         quick_replies |-> << Button("A", ANSWER_ \o q_id \o <<"_","a">>),
                              Button("B", ANSWER_ \o q_id \o <<"_","b">>),
                              Button("C", ANSWER_ \o q_id \o <<"_","c">>),
                              Button("D", ANSWER_ \o q_id \o <<"_","d">>) >>]

MarkSeen(t) ==
    LET th == threads[t]
        question_doc == th.loc.question_doc[1]
        user_id == th.loc.sender_id
    IN  /\ th.pc = "mark_seen"
        /\ \E up \in BOOLEAN :
             IF ~up
             THEN /\ threads' = [threads EXCEPT ![t] = Raise(th, "PyMongoError")]
                  /\ users' = users
             ELSE /\ users' = Push(user_id, StrOfObjectId(question_doc._id))
                  /\ threads' = [threads EXCEPT ![t] =
                         CallSend([th EXCEPT !.nwrites = @ + 1],
                                  [th.loc EXCEPT !.marked_at = Len(SeenIds(user_id)) + 1],
                                  QuestionMessage(question_doc))]
        /\ UNCHANGED <<history, META_VERIFY_TOKEN, verify>>

(***************************************************************************)
(* get_question_by_id (lines 78-80) and the grading of handle_postback     *)
(* (lines 160-177).                                                        *)
(***************************************************************************)
\* line 80
FindQuestion(question_id) == { q \in questions : q._id = ObjectId(question_id) }

\* line 165
IsCorrect(user_answer, correct_answer) == user_answer = correct_answer

\* (.get('explanation', '') : no placeholder for a question without one)
ExplanationOrEmpty(question_doc) ==
    IF Has(question_doc, "explanation") THEN question_doc.explanation ELSE ""

\* line 163
Explanation(question_doc) ==
    IF Has(question_doc, "explanation") THEN question_doc.explanation
    ELSE "No explanation available."

\* lines 165-168
ReplyText(question_doc, user_answer) ==
    LET correct_answer == question_doc.correct_option
    IN  IF IsCorrect(user_answer, correct_answer)
        THEN <<"Correct!\n\n", Explanation(question_doc)>>
        ELSE <<"Incorrect. The correct answer was (">> \o Upper(correct_answer)
             \o <<").\n\n", Explanation(question_doc)>>

\* (the exam name taken from a fourth part of the clicked payload, when it has one)
NextExamFromPayload(question_doc, payload) ==
    IF Len(Split(payload, "_")) >= 4 THEN Split(payload, "_")[4]
    ELSE question_doc.exam_name

\* line 171: the exam name of the Next button
NextExam(question_doc, payload) == question_doc.exam_name

\* lines 172-177
GradedMessage(question_doc, user_answer, payload) ==
    [text |-> ReplyText(question_doc, user_answer),
     quick_replies |-> << Button("Next Question",
                                 NEXT_ \o NextExam(question_doc, payload)) >>]

GetQuestion(t) ==
    LET th == threads[t]
        found == FindQuestion(th.loc.question_id)
    IN  /\ th.pc = "get_question"
        /\ \E up \in BOOLEAN :
             threads' = [threads EXCEPT ![t] =
                 IF ~ObjectIdValid(th.loc.question_id) THEN Raise(th, "InvalidId")
                 ELSE IF ~up THEN Raise(th, "PyMongoError")
                 ELSE IF found = {} THEN EndEvent(th)
                 ELSE LET question_doc == CHOOSE q \in found : TRUE
                      IN  CallSend(th, [th.loc EXCEPT !.question_doc = <<question_doc>>],
                                   GradedMessage(question_doc, th.loc.user_answer,
                                                 CurrentEvent(th).postback.payload))]
        /\ UNCHANGED <<users, history, META_VERIFY_TOKEN, verify>>

(***************************************************************************)
(* send_message (lines 33-43): one requests.post; a RequestException is    *)
(* caught and printed.  After it the handler of the event returns.         *)
(***************************************************************************)
\* (send_message without its try/except)
SendRaisesOnFailure(posted) == ~posted

\* lines 40-43: does a failed post leave send_message as an exception?
SendRaises(posted) == FALSE

Send(t, keep) ==
    LET th == threads[t]
    IN  /\ th.pc = "send"
        /\ \E posted \in BOOLEAN :
             LET attempt == [recipient |-> th.loc.sender_id, message |-> th.loc.message[1],
                             posted |-> posted]
                 after == [th EXCEPT !.sent = Append(@, attempt)]
             IN  threads' = [threads EXCEPT ![t] =
                     IF SendRaises(posted) THEN Raise(after, "RequestException")
                     ELSE EndEvent(after)]
        /\ history' = IF keep
                      THEN Append(history,
                               [recipient |-> th.loc.sender_id, message |-> th.loc.message[1],
                                event |-> CurrentEvent(th), exam_name |-> th.loc.exam_name,
                                seen_ids |-> th.loc.seen_ids, marked_at |-> th.loc.marked_at])
                      ELSE history
        /\ UNCHANGED <<users, META_VERIFY_TOKEN, verify>>

(***************************************************************************)
(* webhook(), GET: the verification handshake (lines 89-92).  A query      *)
(* argument that is not supplied reads as None.  Returning None from a     *)
(* view makes Flask answer 500.                                            *)
(***************************************************************************)
Secrets == {None, "", "s3cret", "other"}
Tokens == {None, "", "s3cret", "other", "guess"}
Challenges == {None, "1158201444", "42", "x", "7"}

Mismatch == "Verification token mismatch"

VerifyResponse(token, challenge) ==
    IF token = META_VERIFY_TOKEN
    THEN IF challenge = None THEN [status |-> 500, body |-> "Internal Server Error"]
         ELSE [status |-> 200, body |-> challenge]
    ELSE [status |-> 403, body |-> Mismatch]

Get(token, challenge) ==
    /\ verify' = [token |-> token, challenge |-> challenge,
                  response |-> VerifyResponse(token, challenge)]
    /\ UNCHANGED <<users, threads, history, META_VERIFY_TOKEN>>

(***************************************************************************)
(* Specifications.                                                         *)
(***************************************************************************)
InitVerify ==
    /\ users = [u \in {} |-> 0]
    /\ threads = [t \in Workers |-> IdleThread]
    /\ history = <<>>
    /\ META_VERIFY_TOKEN \in Secrets
    /\ verify = [token |-> None, challenge |-> None,
                 response |-> [status |-> 0, body |-> ""]]

Init == InitVerify /\ META_VERIFY_TOKEN = None

Step(t, keep) ==
    \/ NextEvent(t)
    \/ FindUser(t)
    \/ Aggregate(t)
    \/ MarkSeen(t)
    \/ GetQuestion(t)
    \/ Send(t, keep)

\* One worker, so requests are handled one after another; every body shape.
Next ==
    \/ \E body \in Bodies : Receive("w1", body, TRUE)
    \/ Step("w1", FALSE)

Spec == Init /\ [][Next]_vars

\* One worker, one user's quiz session, with the history of what was posted.
MaxHistory == 4

SessionBodies ==
    { Body1(ev) : ev \in ServeEvents({"u1"}) }
    \cup { Body1(PostbackEvent("u1", AnswerPayload(Q1, <<"c">>))),
           Body1(PostbackEvent("u1", AnswerPayload(Q2, <<"b">>))),
           Body1(PostbackEvent("u1", AnswerPayload(Q3, <<"a">>))) }

NextSession ==
    \/ \E body \in SessionBodies : Receive("w1", body, Len(history) < MaxHistory)
    \/ Step("w1", TRUE)

SpecSession == Init /\ [][NextSession]_vars

\* Two workers: requests of two users overlap, each store operation atomic.
MaxConcHistory == 2

ConcBodies ==
    { Body1(TextEvent("u1", <<"n","e","e","t">>)),
      Body1(PostbackEvent("u2", NextPayload(NEET))),
      Body1(PostbackEvent("u2", AnswerPayload(Q1, <<"a">>))) }

\* the workers being alike, a request goes to the first idle one
FirstIdle(t) == t = "w1" \/ threads["w1"].pc # "idle"

NextConc ==
    \E t \in Workers :
        \/ \E body \in ConcBodies :
               Receive(t, body, FirstIdle(t) /\ Len(history) < MaxConcHistory)
        \/ Step(t, TRUE)

SpecConc == Init /\ [][NextConc]_vars

\* The verification handshake, for every configured secret.
NextVerify == \E token \in Tokens, challenge \in Challenges : Get(token, challenge)

SpecVerify == InitVerify /\ [][NextVerify]_vars

(***************************************************************************)
(* Reading the traffic back.                                               *)
(***************************************************************************)
IsQuestionMsg(m) == Has(m, "quick_replies") /\ Len(m.quick_replies) = 4
IsGradedMsg(m) == Has(m, "quick_replies") /\ Len(m.quick_replies) = 1
IsCompletionMsg(m) ==
    ~Has(m, "quick_replies") /\ m.text[1] = CompletionMessage(<<>>).text[1]

\* the question id a question message's first button carries
ServedId(m) == Split(m.quick_replies[1].payload, "_")[2]

\* the stored question with this id (an ObjectId value)
Stored(oid) == CHOOSE q \in questions : q._id = oid
InStore(id_str) == Lower(id_str) \in {q._id : q \in questions}

IsAnswerEvent(ev) ==
    /\ Has(ev, "postback") /\ Has(ev.postback, "payload")
    /\ StartsWith(ev.postback.payload, ANSWER_)
    /\ Len(Split(ev.postback.payload, "_")) >= 3
AnsweredId(ev) == Split(ev.postback.payload, "_")[2]
AnsweredLetter(ev) == Split(ev.postback.payload, "_")[3]

SaysCorrect(m) == m.text[1] = "Correct!\n\n"

\* everything the events of a worker's current or last request have done
Results(th) ==
    IF th.pc \in {"find_user", "aggregate", "mark_seen", "get_question", "send"}
    THEN Append(th.log, EventResult(th, "running"))
    ELSE th.log

\* the number of events of a POST body
RECURSIVE CountEvents(_)
CountEvents(entries) ==
    IF entries = <<>> THEN 0
    ELSE Len(GetList(Head(entries), "messaging")) + CountEvents(Tail(entries))

(***************************************************************************)
(* C1.  Requests handled one after another: no question id is served to    *)
(* the same user twice, and once a request of a user for an exam was       *)
(* answered with the completion message, every later answer to a request   *)
(* of that user for that exam is the completion message.                   *)
(***************************************************************************)
NoRepeatSequential ==
    \A i \in DOMAIN history : \A j \in DOMAIN history :
        (i < j /\ history[i].recipient = history[j].recipient) =>
            /\ (IsQuestionMsg(history[i].message) /\ IsQuestionMsg(history[j].message))
                   => ServedId(history[i].message) # ServedId(history[j].message)
            /\ (/\ IsCompletionMsg(history[i].message)
                /\ IsQuestionMsg(history[j].message) \/ IsCompletionMsg(history[j].message)
                /\ history[j].exam_name = history[i].exam_name)
                   => IsCompletionMsg(history[j].message)

\* two questions of an exam served, then the completion message twice
ExhaustedTwice ==
    /\ Len(history) = 4
    /\ IsQuestionMsg(history[1].message) /\ IsQuestionMsg(history[2].message)
    /\ IsCompletionMsg(history[3].message) /\ IsCompletionMsg(history[4].message)
    /\ \A k \in 1..4 : history[k].exam_name = NEET /\ history[k].recipient = "u1"

(***************************************************************************)
(* C2.  Two workers: the same question is served twice to a user only by   *)
(* requests that overlap, each having read the seen list before the other  *)
(* appended its mark; and such an interleaving is reachable.               *)
(***************************************************************************)
SameQuestionTwice(i, j) ==
    /\ i # j
    /\ history[i].recipient = history[j].recipient
    /\ IsQuestionMsg(history[i].message) /\ IsQuestionMsg(history[j].message)
    /\ ServedId(history[i].message) = ServedId(history[j].message)

RepeatOnlyByOverlap ==
    \A i \in DOMAIN history : \A j \in DOMAIN history :
        SameQuestionTwice(i, j) => Len(history[i].seen_ids) < history[j].marked_at

RepeatUnderConcurrency ==
    \E i \in DOMAIN history : \E j \in DOMAIN history : SameQuestionTwice(i, j)

(***************************************************************************)
(* C3.  Grading is case-insensitive: within a POST, two answer clicks on   *)
(* the same stored question whose letters (a-d) differ only in case get    *)
(* the same verdict.                                                       *)
(***************************************************************************)
SameLetterOtherCase(r1, r2) ==
    /\ IsAnswerEvent(r1.event) /\ IsAnswerEvent(r2.event)
    /\ AnsweredId(r1.event) = AnsweredId(r2.event)
    /\ AnsweredLetter(r1.event) \in Letters
    /\ AnsweredLetter(r2.event) = Upper(AnsweredLetter(r1.event))
    /\ r1.sent # <<>> /\ r2.sent # <<>>

GradingIgnoresCase ==
    \A t \in Workers :
        LET rs == Results(threads[t])
        IN  \A k \in DOMAIN rs : \A l \in DOMAIN rs :
                SameLetterOtherCase(rs[k], rs[l])
                    => SaysCorrect(rs[k].sent[1].message) = SaysCorrect(rs[l].sent[1].message)

(***************************************************************************)
(* C4.  An answer click whose question id is not in the question store     *)
(* posts nothing, writes nothing, and the webhook still answers 200.       *)
(***************************************************************************)
UnknownIdResult(r) == IsAnswerEvent(r.event) /\ ~InStore(AnsweredId(r.event))

UnknownQuestionDropped ==
    \A t \in Workers :
        LET th == threads[t]
            rs == Results(th)
        IN  \A k \in DOMAIN rs :
                UnknownIdResult(rs[k]) =>
                    /\ rs[k].sent = <<>>
                    /\ rs[k].writes = 0
                    /\ rs[k].exc \in {"none", "running"}
                    /\ (th.pc = "idle" /\ k = Len(rs)) => th.status = 200

(***************************************************************************)
(* C5.  The Next button of a graded reply carries the exam name stored in  *)
(* the question that was looked up, whatever else the clicked payload      *)
(* holds.                                                                  *)
(***************************************************************************)
GradedResult(r) == IsAnswerEvent(r.event) /\ r.sent # <<>>

NextButtonIsStoredExam ==
    \A t \in Workers :
        LET rs == Results(threads[t])
        IN  \A k \in DOMAIN rs :
                GradedResult(rs[k]) =>
                    /\ IsGradedMsg(rs[k].sent[1].message)
                    /\ rs[k].sent[1].message.quick_replies[1].payload
                           = NEXT_ \o Stored(Lower(AnsweredId(rs[k].event))).exam_name

\* a graded click whose payload carries another exam name as a fourth part
GradedDespiteForgedExam ==
    \E t \in Workers : \E k \in DOMAIN Results(threads[t]) :
        LET r == Results(threads[t])[k]
        IN  /\ GradedResult(r)
            /\ Len(Split(r.event.postback.payload, "_")) = 4
            /\ Split(r.event.postback.payload, "_")[4] = JEE
            /\ r.sent[1].message.quick_replies[1].payload = NEXT_ \o NEET

(***************************************************************************)
(* C6.  Whatever the shape of the POST body, the webhook answers 200 and   *)
(* no exception leaves it (store failures set aside: they are C7).         *)
(***************************************************************************)
AnyShapeAnswersOK ==
    \A t \in Workers :
        (threads[t].status # 0 /\ threads[t].exc # "PyMongoError")
            => (threads[t].status = 200 /\ threads[t].exc = "none")

(***************************************************************************)
(* C7.  A store operation that fails while an event is handled does not    *)
(* end the request: nothing is posted for that event, the events after it  *)
(* are handled and the webhook answers 200.                                *)
(***************************************************************************)
StoreFailureCaught ==
    \A t \in Workers :
        LET th == threads[t]
        IN  \A k \in DOMAIN th.log :
                th.log[k].exc = "PyMongoError" =>
                    /\ th.log[k].sent = <<>>
                    /\ th.pc = "idle" =>
                           (th.status = 200 /\ Len(th.log) = CountEvents(Entries(th)))

(***************************************************************************)
(* C8.  A post that fails is swallowed: it was the only post of its event  *)
(* (no retry, no error message), the event ends normally, and unless some  *)
(* other event raises, every event of the POST is handled and the webhook  *)
(* answers 200.                                                            *)
(***************************************************************************)
FailedPost(r) == \E n \in DOMAIN r.sent : ~r.sent[n].posted

SendFailureSwallowed ==
    \A t \in Workers :
        LET th == threads[t]
        IN  \A k \in DOMAIN th.log :
                FailedPost(th.log[k]) =>
                    /\ Len(th.log[k].sent) = 1
                    /\ th.log[k].exc = "none"
                    /\ (th.pc = "idle" /\ th.exc = "none") =>
                           (th.status = 200 /\ Len(th.log) = CountEvents(Entries(th)))

\* a POST of two events answered 200 although the post for the first one failed
SecondEventAfterFailedPost ==
    \E t \in Workers :
        LET th == threads[t]
        IN  /\ th.pc = "idle" /\ th.status = 200 /\ Len(th.log) = 2
            /\ FailedPost(th.log[1])
            /\ th.log[2].sent # <<>>

(***************************************************************************)
(* C9.  A verification GET carrying a challenge: the challenge is returned *)
(* when the supplied token is the configured secret, and a 403 without the *)
(* challenge otherwise; with no secret configured no token is correct.     *)
(***************************************************************************)
TokenCorrect == META_VERIFY_TOKEN # None /\ verify.token = META_VERIFY_TOKEN

VerifyTokenChecked ==
    (verify.response.status # 0 /\ verify.challenge # None) =>
        IF TokenCorrect
        THEN verify.response = [status |-> 200, body |-> verify.challenge]
        ELSE verify.response.status = 403 /\ verify.response.body # verify.challenge

(***************************************************************************)
(* C10.  One user's session, in order: a keyword text is answered with a   *)
(* question Q1 of the exam it names and four buttons carrying Q1's id and  *)
(* the letters a-d; a click on a wrong letter of Q1 is then answered with  *)
(* the incorrect text, Q1's explanation and one Next button carrying Q1's  *)
(* exam; a click on that button is then answered with another question of  *)
(* the same exam, or with the completion message of that exam.             *)
(***************************************************************************)
KeywordServed(i) ==
    /\ Has(history[i].event, "message")
    /\ IsQuestionMsg(history[i].message)

\* entry i + 1 answers a click on a wrong letter of the question of entry i
WrongAnswerTo(i, first) ==
    /\ i + 1 <= Len(history)
    /\ history[i + 1].recipient = history[i].recipient
    /\ IsAnswerEvent(history[i + 1].event)
    /\ AnsweredId(history[i + 1].event) = first._id
    /\ Lower(AnsweredLetter(history[i + 1].event)) # Lower(first.correct_option)

\* entry i + 2 answers a click on the button of entry i + 1
NextClickedAfter(i) ==
    /\ i + 2 <= Len(history)
    /\ history[i + 2].recipient = history[i].recipient
    /\ Has(history[i + 2].event, "postback")
    /\ history[i + 2].event.postback.payload
           = history[i + 1].message.quick_replies[1].payload

WrongAnswerNext(i) ==
    KeywordServed(i) /\ WrongAnswerTo(i, Stored(ServedId(history[i].message)))

NextClicked(i) == WrongAnswerNext(i) /\ NextClickedAfter(i)

SessionOrdering ==
    \A i \in DOMAIN history :
        KeywordServed(i) =>
            LET id == ServedId(history[i].message)
                first == Stored(id)
                btn == history[i].message.quick_replies
                reply == history[i + 1].message
                third == history[i + 2].message
                wrong == WrongAnswerTo(i, first)
            IN  /\ InStore(id)
                /\ first.exam_name = ExamOfText(history[i].event.message.text)
                /\ \A n \in 1..4 :
                       btn[n].payload = AnswerPayload(first._id, <<LowerLetters[n]>>)
                /\ wrong =>
                    /\ ~SaysCorrect(reply)
                    /\ Has(first, "explanation")
                           => reply.text[Len(reply.text)] = first.explanation
                    /\ reply.quick_replies
                           = <<Button("Next Question", NEXT_ \o first.exam_name)>>
                /\ (wrong /\ NextClickedAfter(i)) =>
                    \/ /\ IsQuestionMsg(third)
                       /\ InStore(ServedId(third))
                       /\ ServedId(third) # first._id
                       /\ Stored(ServedId(third)).exam_name = first.exam_name
                    \/ third = CompletionMessage(first.exam_name)

\* the three steps, ending in a second question
SessionServesSecondQuestion ==
    \E i \in DOMAIN history : NextClicked(i) /\ IsQuestionMsg(history[i + 2].message)

\* the three steps, ending in the completion message
SessionEndsInCompletion ==
    \E i \in DOMAIN history : NextClicked(i) /\ IsCompletionMsg(history[i + 2].message)

(***************************************************************************)
(* Reading the user store back.                                            *)
(***************************************************************************)
\* the seen list stored for a user, empty when the user has no record
SeenList(u) == IF u \in DOMAIN users THEN users[u].seen_question_ids ELSE <<>>

Elems(seq) == {seq[k] : k \in DOMAIN seq}

\* every post the worker's current or last request attempted
Attempts(th) ==
    LET rs == Results(th)
    IN  UNION {Elems(rs[k].sent) : k \in DOMAIN rs}

(***************************************************************************)
(* C11.  Mark-as-seen precedes delivery: whenever a question message is    *)
(* about to be posted, was posted or failed to be posted to a user, the    *)
(* question's id is already in that user's seen list.                      *)
(***************************************************************************)
MarkedBeforePosted ==
    /\ \A i \in DOMAIN history :
           IsQuestionMsg(history[i].message)
               => ServedId(history[i].message) \in Elems(SeenList(history[i].recipient))
    /\ \A t \in Workers :
           /\ (threads[t].pc = "send" /\ IsQuestionMsg(threads[t].loc.message[1]))
                  => ServedId(threads[t].loc.message[1])
                         \in Elems(SeenList(threads[t].loc.sender_id))
           /\ \A a \in Attempts(threads[t]) :
                  IsQuestionMsg(a.message)
                      => ServedId(a.message) \in Elems(SeenList(a.recipient))

\* a question whose post failed is in the seen list, and the next request got another
FailedPostConsumed ==
    /\ Len(history) >= 2
    /\ IsQuestionMsg(history[1].message) /\ IsQuestionMsg(history[2].message)
    /\ threads["w1"].pc = "idle"
    /\ \E a \in Attempts(threads["w1"]) :
           /\ ~a.posted
           /\ a.message = history[2].message
           /\ ServedId(a.message) \in Elems(SeenList("u1"))

(***************************************************************************)
(* C12.  A request for the next question of an exam, handled with no other *)
(* request in flight, selects against the sender's seen list: a question   *)
(* that is served is stored under the requested exam and its id was not in *)
(* the list when it was selected, and the completion message is sent       *)
(* exactly when no question of that exam lies outside the list.            *)
(***************************************************************************)
\* the questions of an exam whose ids are not among the ids given
Qualifying(exam_name, ids) ==
    { q \in questions : q.exam_name = exam_name /\ q._id \notin Elems(ids) }

\* the worker is about to post the reply of handle_new_question_request
ServeReplyPending(th) ==
    /\ th.pc = "send"
    /\ th.loc.question_id = <<>>
    /\ th.loc.message[1] # HelpMessage

ServeSelects ==
    \A t \in Workers :
        LET th == threads[t]
            left == Qualifying(th.loc.exam_name, th.loc.seen_ids)
        IN  /\ th.pc \in {"aggregate", "mark_seen"}
                => th.loc.seen_ids = SeenList(th.loc.sender_id)
            /\ th.pc = "mark_seen"
                => th.loc.question_doc[1] \in Qualifying(th.loc.exam_name,
                                                          SeenList(th.loc.sender_id))
            /\ ServeReplyPending(th)
                => IF IsQuestionMsg(th.loc.message[1])
                   THEN /\ Stored(ServedId(th.loc.message[1])) \in left
                        /\ left # {}
                   ELSE /\ th.loc.message[1] = CompletionMessage(th.loc.exam_name)
                        /\ left = {}

\* a NEET question is served to a user who has seen the JEE question and one of NEET
ServedDespiteOtherExamSeen ==
    LET th == threads["w1"]
    IN  /\ ServeReplyPending(th)
        /\ IsQuestionMsg(th.loc.message[1])
        /\ th.loc.exam_name = NEET
        /\ Q3 \in Elems(th.loc.seen_ids)
        /\ Len(th.loc.seen_ids) = 2

(***************************************************************************)
(* C13.  Exhaustion: when a request of a user for an exam finds k          *)
(* questions of the exam outside the seen list, that request and the       *)
(* user's later sequential requests for the exam are answered by exactly k *)
(* question messages, all with different ids, and from the k+1st on by the *)
(* completion message; each question served adds exactly its id to the     *)
(* list the next request reads.                                            *)
(***************************************************************************)
IsServeEntry(h) == IsQuestionMsg(h.message) \/ IsCompletionMsg(h.message)

SameUserAndExam(g, h) == g.recipient = h.recipient /\ g.exam_name = h.exam_name

\* the replies i..j to the requests of history[i]'s user for history[i]'s exam
RequestsFrom(i, j) ==
    { n \in i..j : IsServeEntry(history[n]) /\ SameUserAndExam(history[i], history[n]) }

ExhaustedAfterK ==
    \A i \in DOMAIN history : IsServeEntry(history[i]) =>
        /\ \A j \in i..Len(history) :
               (IsServeEntry(history[j]) /\ SameUserAndExam(history[i], history[j]))
                   => (IsQuestionMsg(history[j].message)
                         <=> Cardinality(RequestsFrom(i, j))
                                <= Cardinality(Qualifying(history[i].exam_name,
                                                          history[i].seen_ids)))
        /\ \A j \in (i + 1)..Len(history) :
               ( /\ IsServeEntry(history[j])
                 /\ history[j].recipient = history[i].recipient
                 /\ \A n \in (i + 1)..(j - 1) : ~IsServeEntry(history[n]) )
                   => /\ history[j].seen_ids =
                            IF IsQuestionMsg(history[i].message)
                            THEN Append(history[i].seen_ids, ServedId(history[i].message))
                            ELSE history[i].seen_ids
                      /\ (IsQuestionMsg(history[i].message) /\ IsQuestionMsg(history[j].message))
                            => ServedId(history[j].message) \notin Elems(history[j].seen_ids)

\* two NEET questions with a JEE question between them, then NEET is complete
ExhaustedOnThirdRequest ==
    /\ Len(history) = 4
    /\ \A k \in 1..4 : history[k].recipient = "u1"
    /\ IsQuestionMsg(history[1].message) /\ history[1].exam_name = NEET
    /\ IsQuestionMsg(history[2].message) /\ history[2].exam_name = JEE
    /\ IsQuestionMsg(history[3].message) /\ history[3].exam_name = NEET
    /\ IsCompletionMsg(history[4].message) /\ history[4].exam_name = NEET

(***************************************************************************)
(* C14.  Text classification: an event with a non-empty text whose upper-  *)
(* cased text contains NEET or NEXT is handed to question selection with   *)
(* exam NEET, also when it contains JEE; otherwise one that contains JEE   *)
(* is handed on with exam JEE; otherwise the event gets exactly one help   *)
(* reply and its handling performs no store operation.                     *)
(***************************************************************************)
InHandler(th) == th.pc \in {"find_user", "aggregate", "mark_seen", "get_question", "send"}

IsTextEvent(ev) ==
    /\ Has(ev, "sender") /\ Has(ev.sender, "id")
    /\ Has(ev, "message") /\ Has(ev.message, "text") /\ ev.message.text # <<>>

Names(ev, word) == Contains(Upper(ev.message.text), word)

IsUnknownCommand(ev) ==
    IsTextEvent(ev) /\ ~Names(ev, NEET) /\ ~Names(ev, NEXT) /\ ~Names(ev, JEE)

HelpReply(ev) == [recipient |-> ev.sender.id, message |-> HelpMessage]

TextClassified ==
    \A t \in Workers :
        LET th == threads[t]
        IN  /\ (InHandler(th) /\ IsTextEvent(CurrentEvent(th))) =>
                   LET ev == CurrentEvent(th)
                   IN  IF Names(ev, NEET) \/ Names(ev, NEXT)
                       THEN /\ th.pc \in {"find_user", "aggregate", "mark_seen", "send"}
                            /\ th.loc.exam_name = NEET
                            /\ th.loc.message # <<HelpMessage>>
                       ELSE IF Names(ev, JEE)
                       THEN /\ th.pc \in {"find_user", "aggregate", "mark_seen", "send"}
                            /\ th.loc.exam_name = JEE
                            /\ th.loc.message # <<HelpMessage>>
                       ELSE /\ th.pc = "send"
                            /\ th.loc.message = <<HelpMessage>>
                            /\ th.loc.sender_id = ev.sender.id
                            /\ th.sent = <<>> /\ th.nwrites = 0
            /\ \A k \in DOMAIN th.log :
                   IsUnknownCommand(th.log[k].event) =>
                       /\ th.log[k].exc = "none"
                       /\ th.log[k].writes = 0
                       /\ Len(th.log[k].sent) = 1
                       /\ [recipient |-> th.log[k].sent[1].recipient,
                           message |-> th.log[k].sent[1].message] = HelpReply(th.log[k].event)

\* a text that names both exams is on its way to selection as NEET
BothNamedGoesToNeet ==
    LET th == threads["w1"]
    IN  /\ th.pc = "find_user"
        /\ IsTextEvent(CurrentEvent(th))
        /\ Names(CurrentEvent(th), JEE) /\ Names(CurrentEvent(th), NEET)
        /\ th.loc.exam_name = NEET

(***************************************************************************)
(* C15.  An event of a sender that carries neither a non-empty text nor a  *)
(* non-empty postback is ignored: nothing is posted and nothing written    *)
(* for it, the events after it in the POST are handled, and the webhook    *)
(* answers 200 when no other event of the POST raises.                     *)
(***************************************************************************)
IsEmptyEvent(ev) ==
    /\ Has(ev, "sender") /\ Has(ev.sender, "id")
    /\ ~(Has(ev, "message") /\ Has(ev.message, "text") /\ ev.message.text # <<>>)
    /\ ~(Has(ev, "postback") /\ DOMAIN ev.postback # {})

EmptyEventIgnored ==
    \A t \in Workers :
        LET th == threads[t]
            events == CountEvents(GetList(th.body.data, "entry"))
        IN  /\ InHandler(th) => ~IsEmptyEvent(CurrentEvent(th))
            /\ \A k \in DOMAIN th.log :
                   IsEmptyEvent(th.log[k].event) =>
                       /\ th.log[k].sent = <<>>
                       /\ th.log[k].writes = 0
                       /\ th.log[k].exc = "none"
                       /\ th.pc = "idle" =>
                              /\ k < events => Len(th.log) > k
                              /\ (\A n \in DOMAIN th.log : th.log[n].exc = "none")
                                     => th.status = 200 /\ Len(th.log) = events

\* a POST whose first event is empty and whose second got the help reply, answered 200
EmptyThenHelp ==
    LET th == threads["w1"]
    IN  /\ th.pc = "idle" /\ th.status = 200
        /\ Len(th.log) = 2
        /\ IsEmptyEvent(th.log[1].event)
        /\ Has(th.log[1].event, "message")
        /\ th.log[1].sent = <<>>
        /\ Len(th.log[2].sent) = 1

(***************************************************************************)
(* C16.  An answer click whose question the store returns gets exactly one *)
(* message, posted to the sender, with exactly one button, the Next        *)
(* Question button, and a text that ends with the stored explanation or,   *)
(* for a question stored without one, with the placeholder.                *)
(***************************************************************************)
Placeholder == "No explanation available."

StoredExplanation(q) == IF "explanation" \in DOMAIN q THEN q.explanation ELSE Placeholder

IsGradedReplyTo(m, ev) ==
    /\ DOMAIN m = {"text", "quick_replies"}
    /\ Len(m.quick_replies) = 1
    /\ m.quick_replies[1].title = "Next Question"
    /\ StartsWith(m.quick_replies[1].payload, NEXT_)
    /\ m.text[Len(m.text)] = StoredExplanation(Stored(Lower(AnsweredId(ev))))

GraderEmitsOne ==
    \A t \in Workers :
        LET th == threads[t]
        IN  /\ \A k \in DOMAIN th.log :
                   LET r == th.log[k]
                   IN  (IsAnswerEvent(r.event) /\ InStore(AnsweredId(r.event)) /\ r.exc = "none")
                           => /\ Len(r.sent) = 1
                              /\ r.sent[1].recipient = r.event.sender.id
                              /\ IsGradedReplyTo(r.sent[1].message, r.event)
                              /\ r.writes = 0
            /\ (th.pc = "send" /\ IsAnswerEvent(CurrentEvent(th)))
                   => /\ InStore(AnsweredId(CurrentEvent(th)))
                      /\ th.sent = <<>>
                      /\ IsGradedReplyTo(th.loc.message[1], CurrentEvent(th))

\* the reply to an answer to the question stored without an explanation
GradedWithPlaceholder ==
    \E k \in DOMAIN threads["w1"].log :
        LET r == threads["w1"].log[k]
        IN  /\ IsAnswerEvent(r.event) /\ Lower(AnsweredId(r.event)) = Q2
            /\ Len(r.sent) = 1
            /\ r.sent[1].message.text[Len(r.sent[1].message.text)] = Placeholder

(***************************************************************************)
(* C17.  The user store is append-only.  A step either leaves every seen   *)
(* list as it is, or it is the mark-as-seen step of a request that serves  *)
(* a question: it appends exactly the id of that question to the sender's  *)
(* list, creating the record when the sender has none, and leaves the      *)
(* other records alone.  An event is handled with one write when it is     *)
(* answered with a question and with none otherwise (answer clicks, help   *)
(* and completion replies, ignored events).                                *)
(***************************************************************************)
\* the step of worker t that marks its selected question as seen
MarksServed(t) ==
    LET th == threads[t]
        u == th.loc.sender_id
    IN  /\ th.pc = "mark_seen"
        /\ DOMAIN users' = DOMAIN users \cup {u}
        /\ \A v \in DOMAIN users \ {u} : users'[v] = users[v]
        /\ users'[u].seen_question_ids = Append(SeenList(u), th.loc.question_doc[1]._id)
        /\ threads'[t].pc = "send"
        /\ IsQuestionMsg(threads'[t].loc.message[1])
        /\ ServedId(threads'[t].loc.message[1]) = th.loc.question_doc[1]._id

\* an event answered with a question made one write, every other event none
OneWritePerServe ==
    \A t \in Workers : \A k \in DOMAIN Results(threads[t]) :
        LET r == Results(threads[t])[k]
        IN  r.writes = IF r.sent # <<>> /\ IsQuestionMsg(r.sent[1].message) THEN 1
                       ELSE IF /\ r.exc = "running" /\ threads[t].pc = "send"
                               /\ IsQuestionMsg(threads[t].loc.message[1]) THEN 1
                       ELSE 0

AppendOnly ==
    [][ /\ users' = users \/ \E t \in Workers : MarksServed(t)
        /\ \A u \in DOMAIN users :
               /\ u \in DOMAIN users'
               /\ Len(users[u].seen_question_ids) <= Len(users'[u].seen_question_ids)
               /\ SubSeq(users'[u].seen_question_ids, 1, Len(users[u].seen_question_ids))
                      = users[u].seen_question_ids
        /\ OneWritePerServe' ]_vars

\* all three questions a user can be served are in the list, and the last
\* request, answered with the completion message, wrote nothing
CompletionWroteNothing ==
    LET th == threads["w1"]
    IN  /\ th.pc = "idle"
        /\ Len(SeenList("u1")) = 3
        /\ Len(th.log) = 1
        /\ th.log[1].writes = 0
        /\ Len(th.log[1].sent) = 1
        /\ IsCompletionMsg(th.log[1].sent[1].message)

(***************************************************************************)
(* C18.  Button payloads round-trip: a click on an answer button of a      *)
(* stored question is decoded to that question's id and the button's       *)
(* letter, and a click on the Next button built for a stored question is   *)
(* decoded to that question's exam name.                                   *)
(***************************************************************************)
\* the payload of the n-th answer button of the question message
AnswerButton(q, n) == QuestionMessage(q).quick_replies[n].payload

\* the payload of the Next button of the reply to an answer to q
NextButton(q) == GradedMessage(q, <<"a">>, AnswerButton(q, 1)).quick_replies[1].payload

Clicked(th, payload) ==
    /\ InHandler(th)
    /\ Has(CurrentEvent(th), "postback") /\ Has(CurrentEvent(th).postback, "payload")
    /\ CurrentEvent(th).postback.payload = payload

PayloadsRoundTrip ==
    \A t \in Workers : \A q \in questions :
        /\ \A n \in 1..4 :
               (Clicked(threads[t], AnswerButton(q, n)) /\ threads[t].pc = "get_question")
                   => /\ threads[t].loc.question_id = q._id
                      /\ threads[t].loc.user_answer = <<LowerLetters[n]>>
        /\ (Clicked(threads[t], NextButton(q)) /\ threads[t].pc = "find_user")
               => threads[t].loc.exam_name = q.exam_name

\* the answer half alone
AnswerPayloadsRoundTrip ==
    \A t \in Workers : \A q \in questions : \A n \in 1..4 :
        (Clicked(threads[t], AnswerButton(q, n)) /\ threads[t].pc = "get_question")
            => /\ threads[t].loc.question_id = q._id
               /\ threads[t].loc.user_answer = <<LowerLetters[n]>>

(***************************************************************************)
(* C19.  No seen-mark is lost under concurrency: with two workers, once a  *)
(* request has marked the question it serves, the id stays in the user's   *)
(* list, at the position the mark gave it, whatever other requests of the  *)
(* same or of another user do in between or afterwards.                    *)
(***************************************************************************)
MarkKept(u, id_str, at) ==
    /\ at \in 1..Len(SeenList(u))
    /\ SeenList(u)[at] = id_str

MarksStay ==
    /\ \A i \in DOMAIN history :
           IsQuestionMsg(history[i].message)
               => MarkKept(history[i].recipient, ServedId(history[i].message),
                           history[i].marked_at)
    /\ \A t \in Workers :
           (threads[t].pc = "send" /\ IsQuestionMsg(threads[t].loc.message[1]))
               => MarkKept(threads[t].loc.sender_id, ServedId(threads[t].loc.message[1]),
                           threads[t].loc.marked_at)

\* two requests of one user that both read the empty list and then marked
\* different questions: both marks are in the list
OverlappingMarksBothKept ==
    /\ Len(history) = 2
    /\ history[1].recipient = history[2].recipient
    /\ IsQuestionMsg(history[1].message) /\ IsQuestionMsg(history[2].message)
    /\ history[1].seen_ids = <<>> /\ history[2].seen_ids = <<>>
    /\ ServedId(history[1].message) # ServedId(history[2].message)
    /\ Elems(SeenList(history[1].recipient))
           = {ServedId(history[1].message), ServedId(history[2].message)}

(***************************************************************************)
(* C20.  Per-user isolation, with two workers and two users: every message *)
(* goes to the sender of the event it answers; the list a request selects  *)
(* against is a prefix of its own sender's list; a user's list holds       *)
(* exactly the marks of that user's own requests, one per question served  *)
(* to that user; and what a request is answered with is determined by the  *)
(* exam it names and the list read for its sender.  So neither a user's    *)
(* list nor the questions the user can be served depend on the events of   *)
(* another user.                                                           *)
(***************************************************************************)
IsPrefix(s, seq) == Len(s) <= Len(seq) /\ SubSeq(seq, 1, Len(s)) = s

\* the positions of u's list marked by requests whose reply is posted or pending
OwnMarks(u) ==
    { history[i].marked_at : i \in { n \in DOMAIN history :
          history[n].recipient = u /\ IsQuestionMsg(history[n].message) } }
    \cup { threads[t].loc.marked_at : t \in { w \in Workers :
          /\ threads[w].pc = "send"
          /\ threads[w].loc.sender_id = u
          /\ IsQuestionMsg(threads[w].loc.message[1]) } }

Isolated ==
    /\ \A i \in DOMAIN history :
           LET h == history[i]
           IN  /\ h.recipient = h.event.sender.id
               /\ IsPrefix(h.seen_ids, SeenList(h.recipient))
               /\ IsQuestionMsg(h.message)
                      => Stored(ServedId(h.message)) \in Qualifying(h.exam_name, h.seen_ids)
               /\ IsCompletionMsg(h.message) => Qualifying(h.exam_name, h.seen_ids) = {}
    /\ \A t \in Workers :
           InHandler(threads[t])
               => /\ threads[t].loc.sender_id = CurrentEvent(threads[t]).sender.id
                  /\ IsPrefix(threads[t].loc.seen_ids, SeenList(threads[t].loc.sender_id))
    /\ \A u \in DOMAIN users : OwnMarks(u) = 1..Len(SeenList(u))
    /\ \A u \in Users \ DOMAIN users : OwnMarks(u) = {}

\* each of the two users has been served the same question, and each list
\* holds just that one mark
SameQuestionToBothUsers ==
    /\ Len(history) = 2
    /\ history[1].recipient # history[2].recipient
    /\ IsQuestionMsg(history[1].message) /\ IsQuestionMsg(history[2].message)
    /\ ServedId(history[1].message) = ServedId(history[2].message)
    /\ SeenList(history[1].recipient) = <<ServedId(history[1].message)>>
    /\ SeenList(history[2].recipient) = <<ServedId(history[2].message)>>

=============================================================================
